---- MODULE Spec2Model ----
(***************************************************************************)
(* Model of the config server in src/main.rs: load_config's ordered search *)
(* over candidate paths, main's bootstrap (load, bind, serve, exit codes)  *)
(* and the two request handlers.                                           *)
(*                                                                         *)
(* Strings that the program transforms or returns verbatim (the message,   *)
(* response bodies) are sequences of one-character strings, so that        *)
(* "verbatim" is something a check can refute.  Option<T> is a sequence of *)
(* length 0 (None) or 1 (Some).                                            *)
(***************************************************************************)
EXTENDS Integers, Sequences, FiniteSets, TLC

\* ---------------------------------------------------------------- bounds
\* At most this many of the filesystem locations hold a file.
MaxFiles == 2
\* At most this many requests are in flight at once.
MaxInFlight == 2

\* ------------------------------------------------------- program constants
\* port: u16
U16Max == 65535
\* std::process::exit(1)
ExitFailure == 1
\* StatusCode::OK
StatusOK == 200

\* ------------------------------------------------------------------ paths
ExeConfig == "exe_dir/config/config.json"
ExeUpConfig == "exe_dir/../config/config.json"
CwdConfig == "cwd/config/config.json"
CwdUpConfig == "cwd/../config/config.json"
CwdFile == "cwd/config.json"
ExeFile == "exe_dir/config.json"
Fallback == "config.json"
\* A location the specification lists (candidate c) and the code never joins.
ExeUpUpConfig == "exe_dir/../../config/config.json"

\* The filesystem locations of the model.
FsPaths ==
  {ExeConfig, ExeUpConfig, ExeUpUpConfig, CwdConfig, CwdUpConfig, CwdFile,
   ExeFile, Fallback}

\* ------------------------------------------------------------ file contents
MsgHello == <<"h", "e", "l", "l", "o">>
MsgPadded == <<" ", "h", "i", " ">>
MsgHi == <<"h", "i">>
BodyOK == <<"O", "K">>

JStr(s) == [t |-> "string", v |-> s]
JNum(n) == [t |-> "number", n |-> n]
JBool(b) == [t |-> "bool", b |-> b]

\* {"message": "hello", "port": 8080}
DocHello ==
  [syntax |-> TRUE, obj |-> [message |-> JStr(MsgHello), port |-> JNum(8080)]]
\* {"message": " hi ", "port": 0, "debug": true}
DocPadded ==
  [syntax |-> TRUE,
   obj |-> [message |-> JStr(MsgPadded), port |-> JNum(0), debug |-> JBool(TRUE)]]
\* {"message": "hi"}
DocNoPort == [syntax |-> TRUE, obj |-> [message |-> JStr(MsgHi)]]
\* {"message": "hi", "port": 65536}
DocPortRange ==
  [syntax |-> TRUE, obj |-> [message |-> JStr(MsgHi), port |-> JNum(65536)]]
\* {"message": "hi", "port"
DocBadSyntax == [syntax |-> FALSE, obj |-> [message |-> JStr(MsgHi)]]

Docs == {DocHello, DocPadded, DocNoPort, DocPortRange, DocBadSyntax}

Missing == [kind |-> "missing", doc |-> DocBadSyntax]
Unreadable == [kind |-> "unreadable", doc |-> DocBadSyntax]
File(d) == [kind |-> "file", doc |-> d]
Present == {Unreadable} \cup {File(d) : d \in Docs}

\* ------------------------------------------------------------------ state
VARIABLES
  fs,            \* the filesystem: location -> Missing, Unreadable or File(doc)
  pc,            \* main's position
  config_paths,  \* load_config: the candidate list
  idx,           \* load_config: index of the candidate the loop is at
  last_error,    \* load_config: Option<String>
  examined,      \* the candidates the loop has tested with exists(), in order
  result,        \* Option of load_config's return value
  info_log,      \* tracing::info! lines
  stderr,        \* eprintln! lines
  state,         \* Option<Arc<AppState>>
  port,          \* main's local port
  listener,      \* Option of the bound address
  bind_attempts, \* number of TcpListener::bind calls
  exit_code,     \* Option of the process exit code
  in_flight,     \* route -> number of requests accepted and not yet answered
  responses      \* the responses sent

vars ==
  <<fs, pc, config_paths, idx, last_error, examined, result, info_log, stderr,
    state, port, listener, bind_attempts, exit_code, in_flight, responses>>

loadVars == <<config_paths, idx, last_error, examined, result, info_log>>
serveVars == <<state, port, listener, bind_attempts, in_flight, responses>>

Routes == {"/", "/health"}

None == <<>>
Some(x) == <<x>>

Init ==
  /\ \E S \in SUBSET FsPaths :
       /\ Cardinality(S) <= MaxFiles
       /\ \E g \in [S -> Present] :
            fs = [p \in FsPaths |-> IF p \in S THEN g[p] ELSE Missing]
  /\ pc = "start"
  /\ config_paths = <<>>
  /\ idx = 1
  /\ last_error = None
  /\ examined = <<>>
  /\ result = None
  /\ info_log = <<>>
  /\ stderr = <<>>
  /\ state = None
  /\ port = 0
  /\ listener = None
  /\ bind_attempts = 0
  /\ exit_code = None
  /\ in_flight = [r \in Routes |-> 0]
  /\ responses = {}

\* ------------------------------------------------------------ load_config
\* Mutant: the candidate list with the two-levels-up location added.
ConfigPathsWithUpUp(exe1, cwd, exe2) ==
  (IF exe1 THEN <<ExeConfig, ExeUpConfig, ExeUpUpConfig>> ELSE <<>>)
    \o (IF cwd THEN <<CwdConfig, CwdUpConfig, CwdFile>> ELSE <<>>)
    \o (IF exe2 THEN <<ExeFile>> ELSE <<>>)
    \o <<Fallback>>

\* Mutant: the candidate list without the final fallback push.
ConfigPathsNoFallback(exe1, cwd, exe2) ==
  (IF exe1 THEN <<ExeConfig, ExeUpConfig>> ELSE <<>>)
    \o (IF cwd THEN <<CwdConfig, CwdUpConfig, CwdFile>> ELSE <<>>)
    \o (IF exe2 THEN <<ExeFile>> ELSE <<>>)

\* The candidate list, given the outcomes of the first env::current_exe()
\* (with a parent directory), env::current_dir() and the second
\* env::current_exe().
ConfigPaths(exe1, cwd, exe2) ==
  (IF exe1 THEN <<ExeConfig, ExeUpConfig>> ELSE <<>>)
    \o (IF cwd THEN <<CwdConfig, CwdUpConfig, CwdFile>> ELSE <<>>)
    \o (IF exe2 THEN <<ExeFile>> ELSE <<>>)
    \o <<Fallback>>

\* serde_json::from_str::<Config>: Ok(Config) or Err(detail).
ParseOk(c) == [ok |-> TRUE, config |-> Some(c), detail |-> ""]
ParseErr(d) == [ok |-> FALSE, config |-> None, detail |-> d]

\* Mutant: port declared #[serde(default)], so a missing port parses as 0.
from_str_default_port(doc) ==
  IF ~doc.syntax THEN ParseErr("syntax error")
  ELSE IF "message" \notin DOMAIN doc.obj THEN ParseErr("missing field message")
  ELSE IF doc.obj["message"].t # "string" THEN ParseErr("invalid type")
  ELSE IF "port" \notin DOMAIN doc.obj
    THEN ParseOk([message |-> doc.obj["message"].v, port |-> 0])
  ELSE IF doc.obj["port"].t # "number" THEN ParseErr("invalid type")
  ELSE IF doc.obj["port"].n \notin 0..U16Max THEN ParseErr("invalid value")
  ELSE ParseOk([message |-> doc.obj["message"].v, port |-> doc.obj["port"].n])

from_str(doc) ==
  IF ~doc.syntax THEN ParseErr("syntax error")
  ELSE IF "message" \notin DOMAIN doc.obj THEN ParseErr("missing field message")
  ELSE IF doc.obj["message"].t # "string" THEN ParseErr("invalid type")
  ELSE IF "port" \notin DOMAIN doc.obj THEN ParseErr("missing field port")
  ELSE IF doc.obj["port"].t # "number" THEN ParseErr("invalid type")
  ELSE IF doc.obj["port"].n \notin 0..U16Max THEN ParseErr("invalid value")
  ELSE ParseOk([message |-> doc.obj["message"].v, port |-> doc.obj["port"].n])

\* The strings load_config formats.
NotFoundReason(path) == [path |-> path, reason |-> "not found"]
ReadErrorReason(path) == [path |-> path, reason |-> "read error"]
EmptyString == [path |-> "", reason |-> ""]
unwrap_or_default(opt) == IF opt = None THEN EmptyString ELSE opt[1]

\* load_config's return values.
Ok(c) == [tag |-> "Ok", config |-> Some(c), prefix |-> "", path |-> "", detail |-> ""]
ParseError(path, d) ==
  [tag |-> "Err", config |-> None, prefix |-> "Failed to parse",
   path |-> path, detail |-> d]
AggregatedError(last) ==
  [tag |-> "Err", config |-> None,
   prefix |-> "Failed to load config from any path. Last error:",
   path |-> last.path, detail |-> last.reason]

InLoop == pc = "loop" /\ idx <= Len(config_paths)
\* Mutant: the loop walks the list from its end.
CurrentReversed == config_paths[Len(config_paths) - idx + 1]
Current == config_paths[idx]

\* Lines 76-103: build the candidate list.
BuildPaths ==
  /\ pc = "start"
  /\ \E exe1, cwd, exe2 \in BOOLEAN : config_paths' = ConfigPaths(exe1, cwd, exe2)
  /\ idx' = 1
  /\ last_error' = None
  /\ pc' = "loop"
  /\ UNCHANGED <<fs, examined, result, info_log, stderr, exit_code>>
  /\ UNCHANGED serveVars

\* Lines 106, 119-121: the candidate does not exist.
LoopNotFound ==
  /\ InLoop
  /\ fs[Current].kind = "missing"
  /\ last_error' = Some(NotFoundReason(Current))
  /\ examined' = Append(examined, Current)
  /\ idx' = idx + 1
  /\ UNCHANGED <<fs, pc, config_paths, result, info_log, stderr, exit_code>>
  /\ UNCHANGED serveVars

\* Mutant: a read error returns at once, as a parse error does.
LoopReadErrorFatal ==
  /\ InLoop
  /\ fs[Current].kind = "unreadable"
  /\ result' = Some(AggregatedError(ReadErrorReason(Current)))
  /\ examined' = Append(examined, Current)
  /\ pc' = "returned"
  /\ UNCHANGED <<fs, config_paths, idx, last_error, info_log, stderr, exit_code>>
  /\ UNCHANGED serveVars

\* Lines 106-107, 114-117: the candidate exists and read_to_string fails.
LoopReadError ==
  /\ InLoop
  /\ fs[Current].kind = "unreadable"
  /\ last_error' = Some(ReadErrorReason(Current))
  /\ examined' = Append(examined, Current)
  /\ idx' = idx + 1
  /\ UNCHANGED <<fs, pc, config_paths, result, info_log, stderr, exit_code>>
  /\ UNCHANGED serveVars

\* Lines 108-110: the candidate is read and does not parse: `?` returns.
LoopParseError ==
  /\ InLoop
  /\ fs[Current].kind = "file"
  /\ ~from_str(fs[Current].doc).ok
  /\ result' = Some(ParseError(Current, from_str(fs[Current].doc).detail))
  /\ examined' = Append(examined, Current)
  /\ pc' = "returned"
  /\ UNCHANGED <<fs, config_paths, idx, last_error, info_log, stderr, exit_code>>
  /\ UNCHANGED serveVars

\* Lines 108-112: the candidate is read and parses: log and return it.
LoopLoaded ==
  /\ InLoop
  /\ fs[Current].kind = "file"
  /\ from_str(fs[Current].doc).ok
  /\ result' = Some(Ok(from_str(fs[Current].doc).config[1]))
  /\ info_log' = Append(info_log, [line |-> "Loaded config from", arg |-> Current])
  /\ examined' = Append(examined, Current)
  /\ pc' = "returned"
  /\ UNCHANGED <<fs, config_paths, idx, last_error, stderr, exit_code>>
  /\ UNCHANGED serveVars

\* Mutant: an exhausted search falls back to a built-in Config.
LoopExhaustedDefault ==
  /\ pc = "loop"
  /\ idx > Len(config_paths)
  /\ result' = Some(Ok([message |-> MsgHello, port |-> 8080]))
  /\ pc' = "returned"
  /\ UNCHANGED <<fs, config_paths, idx, last_error, examined, info_log, stderr,
                 exit_code>>
  /\ UNCHANGED serveVars

\* Lines 124-128: the loop ran out of candidates.
LoopExhausted ==
  /\ pc = "loop"
  /\ idx > Len(config_paths)
  /\ result' = Some(AggregatedError(unwrap_or_default(last_error)))
  /\ pc' = "returned"
  /\ UNCHANGED <<fs, config_paths, idx, last_error, examined, info_log, stderr,
                 exit_code>>
  /\ UNCHANGED serveVars

\* ------------------------------------------------------------------- main
BindAddr(p) == [ip |-> "0.0.0.0", port |-> p]

\* load_config's locals are kept while main holds its return value unconsumed,
\* so that the state at the return can be observed; they are gone once main
\* goes on.
DropLocals ==
  /\ config_paths' = <<>>
  /\ idx' = 1
  /\ last_error' = None
  /\ examined' = <<>>

\* Mutant: a failed load is reported and the server starts on a built-in Config.
MainConfigErrorContinue ==
  /\ pc = "returned"
  /\ result[1].tag = "Err"
  /\ stderr' = Append(stderr, [line |-> "Failed to load config", err |-> result[1]])
  /\ port' = 8080
  /\ state' = Some([config |-> [message |-> MsgHello, port |-> 8080]])
  /\ pc' = "bind"
  /\ DropLocals
  /\ UNCHANGED <<fs, result, info_log, exit_code, listener, bind_attempts,
                 in_flight, responses>>

\* Lines 30-33: load_config returned Err.
MainConfigError ==
  /\ pc = "returned"
  /\ result[1].tag = "Err"
  /\ stderr' = Append(stderr, [line |-> "Failed to load config", err |-> result[1]])
  /\ exit_code' = Some(ExitFailure)
  /\ pc' = "exited"
  /\ DropLocals
  /\ UNCHANGED <<fs, result, info_log>>
  /\ UNCHANGED serveVars

\* Lines 30, 35-45: load_config returned Ok; build the state and the router.
MainBuildApp ==
  /\ pc = "returned"
  /\ result[1].tag = "Ok"
  /\ port' = result[1].config[1].port
  /\ state' = Some([config |-> result[1].config[1]])
  /\ pc' = "bind"
  /\ DropLocals
  /\ UNCHANGED <<fs, result, info_log, stderr, exit_code, listener, bind_attempts,
                 in_flight, responses>>

\* Lines 46-53: bind succeeds.
BindOk ==
  /\ pc = "bind"
  /\ bind_attempts' = bind_attempts + 1
  /\ listener' = Some(BindAddr(port))
  /\ info_log' = Append(info_log, [line |-> "Server listening on", arg |-> "addr"])
  /\ pc' = "serving"
  /\ UNCHANGED <<fs, config_paths, idx, last_error, examined, result, stderr,
                 state, port, exit_code, in_flight, responses>>

\* Mutant: a failed bind is reported and tried again.
BindErrorRetry ==
  /\ pc = "bind"
  /\ bind_attempts' = bind_attempts + 1
  /\ stderr' = <<[line |-> "Failed to bind", err |-> result[1]]>>
  /\ UNCHANGED <<fs, pc, exit_code, state, port, listener, in_flight, responses>>
  /\ UNCHANGED loadVars

\* Lines 46-51: bind fails.
BindError ==
  /\ pc = "bind"
  /\ bind_attempts' = bind_attempts + 1
  /\ stderr' = Append(stderr, [line |-> "Failed to bind", err |-> result[1]])
  /\ exit_code' = Some(ExitFailure)
  /\ pc' = "exited"
  /\ UNCHANGED <<fs, state, port, listener, in_flight, responses>>
  /\ UNCHANGED loadVars

\* Lines 55-58: axum::serve returns Err; the exit ends the request tasks.
ServeError ==
  /\ pc = "serving"
  /\ stderr' = Append(stderr, [line |-> "Server error", err |-> result[1]])
  /\ exit_code' = Some(ExitFailure)
  /\ pc' = "exited"
  /\ in_flight' = [r \in Routes |-> 0]
  /\ UNCHANGED <<fs, state, port, listener, bind_attempts, responses>>
  /\ UNCHANGED loadVars

\* --------------------------------------------------------------- handlers
InFlightTotal == in_flight["/"] + in_flight["/health"]

RECURSIVE TrimStart(_)
TrimStart(s) == IF s # <<>> /\ Head(s) = " " THEN TrimStart(Tail(s)) ELSE s

RECURSIVE TrimEnd(_)
TrimEnd(s) ==
  IF s # <<>> /\ s[Len(s)] = " " THEN TrimEnd(SubSeq(s, 1, Len(s) - 1)) ELSE s

\* Mutant: the message is trimmed before it is sent.
home_handler_trimmed(st) ==
  [status |-> StatusOK, body |-> TrimEnd(TrimStart(st.config.message))]

\* Mutant: the health handler answers with the configured message.
health_handler_message == [status |-> StatusOK, body |-> state[1].config.message]

\* Line 64: state.config.message.clone(), sent with the default status.
home_handler(st) == [status |-> StatusOK, body |-> st.config.message]

\* Line 68.
health_handler == [status |-> StatusOK, body |-> BodyOK]

Response(route, r) == [route |-> route, status |-> r.status, body |-> r.body]

\* Line 55: the server accepts a request and routes it (lines 39-42).
Accept(route) ==
  /\ pc = "serving"
  /\ InFlightTotal < MaxInFlight
  /\ in_flight' = [in_flight EXCEPT ![route] = @ + 1]
  /\ UNCHANGED <<fs, pc, stderr, exit_code, state, port, listener, bind_attempts,
                 responses>>
  /\ UNCHANGED loadVars

\* Lines 61-65.
HomeHandler ==
  /\ pc = "serving"
  /\ in_flight["/"] > 0
  /\ in_flight' = [in_flight EXCEPT !["/"] = @ - 1]
  /\ responses' = responses \cup {Response("/", home_handler(state[1]))}
  /\ UNCHANGED <<fs, pc, stderr, exit_code, state, port, listener, bind_attempts>>
  /\ UNCHANGED loadVars

\* Lines 67-69.
HealthHandler ==
  /\ pc = "serving"
  /\ in_flight["/health"] > 0
  /\ in_flight' = [in_flight EXCEPT !["/health"] = @ - 1]
  /\ responses' = responses \cup {Response("/health", health_handler)}
  /\ UNCHANGED <<fs, pc, stderr, exit_code, state, port, listener, bind_attempts>>
  /\ UNCHANGED loadVars

Next ==
  \/ BuildPaths
  \/ LoopNotFound
  \/ LoopReadError
  \/ LoopParseError
  \/ LoopLoaded
  \/ LoopExhausted
  \/ MainConfigError
  \/ MainBuildApp
  \/ BindOk
  \/ BindError
  \/ ServeError
  \/ \E route \in Routes : Accept(route)
  \/ HomeHandler
  \/ HealthHandler

Spec == Init /\ [][Next]_vars

\* ================================================================ claims
\* The Config shape of the file format: a JSON object with a string
\* "message" and an integer "port" in 0..65535; other fields are ignored.
IsConfigShape(doc) ==
  /\ doc.syntax
  /\ {"message", "port"} \subseteq DOMAIN doc.obj
  /\ doc.obj["message"].t = "string"
  /\ doc.obj["port"].t = "number"
  /\ doc.obj["port"].n >= 0
  /\ doc.obj["port"].n <= 65535

ContentOf(doc) == [message |-> doc.obj["message"].v, port |-> doc.obj["port"].n]

Candidates == 1..Len(config_paths)
At(i) == fs[config_paths[i]]
WellFormedAt(i) == At(i).kind = "file" /\ IsConfigShape(At(i).doc)
MalformedAt(i) == At(i).kind = "file" /\ ~IsConfigShape(At(i).doc)
SkippedAt(i) == At(i).kind \in {"missing", "unreadable"}
Prefix(i) == SubSeq(config_paths, 1, i)

Returned == result # None
\* load_config has returned and main has not yet consumed the value.
AtReturn == pc = "returned"
LoadedFrom(i) ==
  /\ WellFormedAt(i)
  /\ result = Some(Ok(ContentOf(At(i).doc)))
  /\ info_log # <<>>
  /\ info_log[1] = [line |-> "Loaded config from", arg |-> config_paths[i]]
  /\ examined = Prefix(i)
IsParseErrorAt(i) ==
  /\ result[1].tag = "Err"
  /\ result[1].prefix = "Failed to parse"
  /\ result[1].path = config_paths[i]
  /\ result[1].config = None
IsAggregated ==
  /\ AtReturn
  /\ result[1].tag = "Err"
  /\ result[1].prefix = "Failed to load config from any path. Last error:"

\* C1 as stated: for every assignment of missing, unreadable, malformed or
\* well-formed to the candidates, load_config returns the content of the
\* first candidate in priority order that exists and parses.
C1_FirstWellFormedSelected ==
  AtReturn =>
    \A i \in Candidates :
      (WellFormedAt(i) /\ \A j \in 1..(i - 1) : ~WellFormedAt(j)) => LoadedFrom(i)

\* C1 amended: load_config returns a Config exactly when the first candidate
\* that exists and is read is well-formed, and then the Config is the parsed
\* content of that candidate, whatever lies at lower-priority paths.
C1_FirstReadableSelected ==
  AtReturn =>
    /\ \A i \in Candidates :
         (WellFormedAt(i) /\ \A j \in 1..(i - 1) : SkippedAt(j)) => LoadedFrom(i)
    /\ result[1].tag = "Ok" =>
         \E i \in Candidates :
           WellFormedAt(i) /\ (\A j \in 1..(i - 1) : SkippedAt(j)) /\ LoadedFrom(i)

C1_Witness ==
  /\ AtReturn
  /\ \E i \in Candidates :
       /\ i > 1
       /\ LoadedFrom(i)
       /\ \E j \in Candidates : j > i /\ At(j).kind = "file" /\ At(j).doc # At(i).doc

\* C2: a candidate that is read and does not have the Config shape makes
\* load_config fail at once with a parse error naming that path; no later
\* candidate is examined and no Config is returned.
C2_MalformedIsFatal ==
  AtReturn =>
    \A i \in Candidates :
      (MalformedAt(i) /\ \A j \in 1..(i - 1) : SkippedAt(j)) =>
        /\ IsParseErrorAt(i)
        /\ examined = Prefix(i)
        /\ info_log = <<>>

C2_Witness ==
  /\ AtReturn
  /\ \E i \in Candidates :
       /\ IsParseErrorAt(i)
       /\ At(i).doc = DocNoPort
       /\ \E j \in Candidates : j > i /\ WellFormedAt(j)

\* C3: when no candidate exists, load_config examines every candidate in
\* order and fails with the aggregated error carrying the last recorded
\* reason; it reports no parse error and returns no Config.
C3_NoneExistsAggregated ==
  (AtReturn /\ \A i \in Candidates : At(i).kind = "missing") =>
    /\ IsAggregated
    /\ result[1].config = None
    /\ result[1].path = config_paths[Len(config_paths)]
    /\ result[1].detail = "not found"
    /\ examined = config_paths
    /\ info_log = <<>>

C3_Witness ==
  /\ AtReturn
  /\ Len(config_paths) = 7
  /\ \A i \in Candidates : At(i).kind = "missing"
  /\ IsAggregated

\* The eight candidates a-h of the specification, and the seven of them
\* other than c.
EightPaths ==
  <<ExeConfig, ExeUpConfig, ExeUpUpConfig, CwdConfig, CwdUpConfig, CwdFile,
    ExeFile, Fallback>>
SevenPaths ==
  <<ExeConfig, ExeUpConfig, CwdConfig, CwdUpConfig, CwdFile, ExeFile, Fallback>>
PathSet == {config_paths[i] : i \in Candidates}
LookupsSucceeded == {ExeConfig, CwdConfig, ExeFile} \subseteq PathSet
OnlyUpUpPresent ==
  /\ fs[ExeUpUpConfig].kind = "file"
  /\ IsConfigShape(fs[ExeUpUpConfig].doc)
  /\ \A p \in FsPaths \ {ExeUpUpConfig} : fs[p].kind = "missing"

\* C4 as stated: the candidate list is exactly the eight paths a-h in that
\* order, and a config present only two levels up from the executable's
\* directory is found.
C4_EightCandidates ==
  /\ (pc \in {"loop", "returned"} /\ LookupsSucceeded) => config_paths = EightPaths
  /\ (AtReturn /\ LookupsSucceeded /\ OnlyUpUpPresent) => result[1].tag = "Ok"

\* C4 amended: the candidate list is the seven paths a, b, d, e, f, g, h in
\* that order, less the entries whose current_exe or current_dir lookup
\* failed, and always ends with the relative config.json; the two-levels-up
\* path is never a candidate, so a config present only there is not found.
C4_SevenCandidates ==
  pc \in {"loop", "returned"} =>
    /\ \E exe1, cwd, exe2 \in BOOLEAN :
         LET Keep(p) ==
               /\ p \in {ExeConfig, ExeUpConfig} => exe1
               /\ p \in {CwdConfig, CwdUpConfig, CwdFile} => cwd
               /\ p = ExeFile => exe2
         IN config_paths = SelectSeq(SevenPaths, Keep)
    /\ LookupsSucceeded => config_paths = SevenPaths
    /\ config_paths[Len(config_paths)] = Fallback
    /\ ExeUpUpConfig \notin PathSet
    /\ (AtReturn /\ OnlyUpUpPresent) => IsAggregated /\ examined = config_paths

C4_Witness ==
  /\ AtReturn
  /\ LookupsSucceeded
  /\ OnlyUpUpPresent
  /\ IsAggregated

NoListener ==
  /\ listener = None
  /\ bind_attempts = 0
  /\ state = None
  /\ InFlightTotal = 0
  /\ responses = {}

\* C5: if load_config fails the process exits with code 1 and no listener is
\* ever opened; a listener is bound and requests are served only after
\* load_config returned a Config, which is the one the server holds.
C5_NoListenerWithoutConfig ==
  [][ /\ (pc = "returned" /\ result[1].tag = "Err") =>
           (pc' = "exited" /\ exit_code' = Some(1))
      /\ ((Returned /\ result[1].tag = "Err") => NoListener)'
      /\ (~NoListener =>
            /\ Returned
            /\ result[1].tag = "Ok"
            /\ state = Some([config |-> result[1].config[1]]))' ]_vars

C5_Witness ==
  /\ pc = "exited"
  /\ result[1].tag = "Err"
  /\ result[1].prefix = "Failed to parse"
  /\ exit_code = Some(1)
  /\ listener = None

\* The message as it stands in the file that was loaded.
LoadedMessage == fs[info_log[1].arg].doc.obj["message"].v

\* C6: the shared Config is the same before and after every step once it is
\* built, and every GET / response is 200 with the loaded file's message,
\* unchanged.
C6_HomeServesMessageVerbatim ==
  [][ /\ state # None => state' = state
      /\ (\A r \in responses :
            r.route = "/" => r.status = 200 /\ r.body = LoadedMessage)' ]_vars

C6_Witness ==
  /\ \E r \in responses : r.route = "/" /\ r.body = MsgPadded
  /\ \E r \in responses : r.route = "/health"
  /\ InFlightTotal = 2

\* C7: every GET /health response is 200 with body OK, whatever the Config
\* and whatever was served before.
C7_HealthAlwaysOK ==
  \A r \in responses : r.route = "/health" => r.status = 200 /\ r.body = <<"O", "K">>

C7_Witness ==
  /\ responses = {[route |-> "/health", status |-> 200, body |-> <<"O", "K">>]}
  /\ state[1].config.message = MsgPadded

\* C8: there is at most one bind attempt per run, the socket is
\* 0.0.0.0:<port of the resolved Config>, and a bind failure or a serve
\* error ends the process with exit code 1 with no further bind.
C8_OneBindNoRetry ==
  /\ bind_attempts <= 1
  /\ listener # None =>
       /\ bind_attempts = 1
       /\ listener[1] = [ip |-> "0.0.0.0", port |-> result[1].config[1].port]
  /\ (bind_attempts = 1 /\ listener = None) => (pc = "exited" /\ exit_code = Some(1))
  /\ pc = "exited" => exit_code = Some(1)
  /\ exit_code # None => pc = "exited"

C8_Witness ==
  /\ pc = "exited"
  /\ bind_attempts = 1
  /\ listener = None
  /\ exit_code = Some(1)

\* C9: a candidate that exists and cannot be read is recorded as the latest
\* failure and the search goes on, so a later candidate that exists, reads
\* and parses is still returned.
C9_ReadErrorContinues ==
  [][ /\ (InLoop /\ fs[Current].kind = "unreadable") =>
           /\ pc' = "loop"
           /\ idx' = idx + 1
           /\ result' = None
           /\ last_error' = Some([path |-> config_paths[idx], reason |-> "read error"])
      /\ (AtReturn =>
            \A i \in Candidates :
              (/\ WellFormedAt(i)
               /\ \A j \in 1..(i - 1) : SkippedAt(j)
               /\ \E j \in 1..(i - 1) : At(j).kind = "unreadable") => LoadedFrom(i))' ]_vars

C9_Witness ==
  /\ AtReturn
  /\ \E i \in Candidates :
       /\ LoadedFrom(i)
       /\ \E j \in 1..(i - 1) : At(j).kind = "unreadable"

\* C10: the candidate list always ends with the relative config.json, and
\* whenever load_config returns the aggregated error last_error is set and is
\* the failure reason of that last candidate.
C10_LastErrorIsFallback ==
  /\ pc \in {"loop", "returned"} =>
       Len(config_paths) >= 1 /\ config_paths[Len(config_paths)] = Fallback
  /\ IsAggregated =>
       /\ last_error # None
       /\ last_error[1].path = Fallback
       /\ last_error[1].reason =
            (IF fs[Fallback].kind = "missing" THEN "not found" ELSE "read error")
       /\ result[1].path = Fallback
       /\ result[1].detail = last_error[1].reason

C10_Witness ==
  /\ IsAggregated
  /\ config_paths = <<Fallback>>
  /\ fs[Fallback].kind = "unreadable"

====
